---- MODULE Spec2Model ----
(***************************************************************************)
(* askmi-api: role based access control.                                   *)
(*   - the role/permission registry        (src/types/permissions.ts)      *)
(*   - the authorization engine            (utils/permissions.ts, found in *)
(*                                          src/src/routes/auth.ts 14-137) *)
(*   - the token codec                     (services/jwtService.ts, found  *)
(*                                          in src/unnamed/part_001)       *)
(*   - the request gate                    (middleware/authMiddleware.ts   *)
(*                                          lines 128-430, the current     *)
(*                                          version of the middleware)     *)
(*   - the user routes and the user store  (routes/user.ts, userService)   *)
(***************************************************************************)
EXTENDS Integers, Sequences, FiniteSets, TLC

VARIABLES
    call,       \* the last direct call of a pure function: inputs and result
    db,         \* the user table: id -> row (the rows that exist)
    nextId,     \* the number of rows ever created (ids are never reused)
    now,        \* the clock jwt.sign and jwt.verify read
    issued,     \* the login responses handed out: { user, token }
    req,        \* the request in flight: pipeline position, inputs, response
    approvedIds \* history: the users approve-influencer has approved

vars == <<call, db, nextId, now, issued, req, approvedIds>>

(***************************************************************************)
(* Registry: src/src/types/permissions.ts                                  *)
(* A permission is the sequence of the ':'-separated segments of its       *)
(* string, so that String.includes(':own') is computed, not looked up.     *)
(***************************************************************************)
USERS_READ_OWN     == <<"users", "read", "own">>
USERS_WRITE_OWN    == <<"users", "write", "own">>
USERS_READ_ALL     == <<"users", "read", "all">>
USERS_WRITE_ALL    == <<"users", "write", "all">>
USERS_DELETE_ALL   == <<"users", "delete", "all">>
CONTENT_CREATE_OWN == <<"content", "create", "own">>
CONTENT_WRITE_OWN  == <<"content", "write", "own">>
CONTENT_DELETE_OWN == <<"content", "delete", "own">>
CONTENT_READ_ALL   == <<"content", "read", "all">>
CONTENT_WRITE_ALL  == <<"content", "write", "all">>
CONTENT_DELETE_ALL == <<"content", "delete", "all">>
SETTINGS_MANAGE    == <<"settings", "manage">>
ANALYTICS_VIEW     == <<"analytics", "view">>

Permission ==
    { USERS_READ_OWN, USERS_WRITE_OWN, USERS_READ_ALL, USERS_WRITE_ALL,
      USERS_DELETE_ALL, CONTENT_CREATE_OWN, CONTENT_WRITE_OWN,
      CONTENT_DELETE_OWN, CONTENT_READ_ALL, CONTENT_WRITE_ALL,
      CONTENT_DELETE_ALL, SETTINGS_MANAGE, ANALYTICS_VIEW }

UserRole == {"user", "admin", "influencer"}

ROLE_PERMISSIONS ==
    [r \in UserRole |->
        CASE r = "admin" ->
               { USERS_READ_OWN, USERS_WRITE_OWN, USERS_READ_ALL,
                 USERS_WRITE_ALL, USERS_DELETE_ALL, CONTENT_CREATE_OWN,
                 CONTENT_WRITE_OWN, CONTENT_DELETE_OWN, CONTENT_READ_ALL,
                 CONTENT_WRITE_ALL, CONTENT_DELETE_ALL, SETTINGS_MANAGE,
                 ANALYTICS_VIEW }
          [] r = "influencer" ->
               { USERS_READ_OWN, USERS_WRITE_OWN, CONTENT_CREATE_OWN,
                 CONTENT_WRITE_OWN, CONTENT_DELETE_OWN, CONTENT_READ_ALL }
          [] r = "user" ->
               { USERS_READ_OWN, USERS_WRITE_OWN, CONTENT_CREATE_OWN,
                 CONTENT_WRITE_OWN, CONTENT_DELETE_OWN, CONTENT_READ_ALL }]

\* if (!ROLE_PERMISSIONS[userRole]) return false;
\* return ROLE_PERMISSIONS[userRole].includes(permission);
\* (role ranges over the strings that are no key of Object.prototype)
roleHasPermission(role, permission) ==
    IF role \notin DOMAIN ROLE_PERMISSIONS
    THEN FALSE
    ELSE permission \in ROLE_PERMISSIONS[role]

\* return role === UserRole.ADMIN;
isAdmin(role) == role = "admin"

\* ROLE_PERMISSIONS and the table inside getRolePermissions are object
\* literals: a key they do not define is looked up in Object.prototype.
ObjectPrototypeKeys ==
    {"constructor", "__proto__", "toString", "valueOf", "hasOwnProperty"}

\* table[role]: a list of the table, a member inherited from
\* Object.prototype (a function or an object: truthy, without .includes),
\* or undefined
PropertyKind(role) ==
    IF role \in DOMAIN ROLE_PERMISSIONS THEN "list"
    ELSE IF role \in ObjectPrototypeKeys THEN "inherited"
    ELSE "undefined"

\* the outcome of a call of roleHasPermission with any string as role:
\* (inherited member).includes is undefined, and calling it is a TypeError
ReturnedBoolean(value) == [threw |-> FALSE, error |-> "", value |-> value]
ThrewTypeError == [threw |-> TRUE, error |-> "TypeError", value |-> FALSE]
roleHasPermissionOutcome(role, permission) ==
    IF PropertyKind(role) = "inherited"
    THEN ThrewTypeError
    ELSE ReturnedBoolean(roleHasPermission(role, permission))

(***************************************************************************)
(* Authorization engine: utils/permissions.ts (src/src/routes/auth.ts)     *)
(***************************************************************************)
\* A Resource | null.  ownerId is optional: hasOwnerId = FALSE is undefined.
NullResource == [isNull |-> TRUE, hasOwnerId |-> FALSE, ownerId |-> ""]
ResourceOf(owner) == [isNull |-> FALSE, hasOwnerId |-> TRUE, ownerId |-> owner]
ResourceNoOwner == [isNull |-> FALSE, hasOwnerId |-> FALSE, ownerId |-> ""]

\* JavaScript truthiness of resource.ownerId: undefined and "" are falsy
TruthyOwnerId(resource) == resource.hasOwnerId /\ resource.ownerId # ""

\* the segments of this model that start with the characters "own"
StartsWithOwn(segment) == segment \in {"own", "owner", "ownership"}

\* action.includes(':own'): some segment after a ':' starts with "own"
IncludesOwn(action) == \E i \in 2..Len(action) : StartsWithOwn(action[i])

canAccessResource_lookupFirst(user, resource, action) ==
    IF ~roleHasPermission(user.role, action) THEN FALSE
    ELSE IF isAdmin(user.role) THEN TRUE
    ELSE IF IncludesOwn(action)
         THEN IF resource.isNull \/ ~TruthyOwnerId(resource)
              THEN FALSE
              ELSE resource.ownerId = user.userId
         ELSE TRUE

canAccessResource_noOwnerCheck(user, resource, action) ==
    IF isAdmin(user.role) THEN TRUE
    ELSE IF ~roleHasPermission(user.role, action) THEN FALSE
    ELSE TRUE

canAccessResource_resourceRequired(user, resource, action) ==
    IF isAdmin(user.role) THEN TRUE
    ELSE IF ~roleHasPermission(user.role, action) THEN FALSE
    ELSE IF resource.isNull \/ ~TruthyOwnerId(resource)
         THEN FALSE
         ELSE IncludesOwn(action) => resource.ownerId = user.userId

canAccessResource_ownerFirst(user, resource, action) ==
    IF isAdmin(user.role) THEN TRUE
    ELSE IF ~resource.isNull /\ TruthyOwnerId(resource)
            /\ resource.ownerId = user.userId
         THEN TRUE
         ELSE roleHasPermission(user.role, action) /\ ~IncludesOwn(action)

canAccessResource(user, resource, action) ==
    IF isAdmin(user.role) THEN TRUE
    ELSE IF ~roleHasPermission(user.role, action) THEN FALSE
    ELSE IF IncludesOwn(action)
         THEN IF resource.isNull \/ ~TruthyOwnerId(resource)
              THEN FALSE
              ELSE resource.ownerId = user.userId
         ELSE TRUE

\* isResourceOwner(userId, resourceOwnerId), lines 60-65
isResourceOwner(userId, resourceOwner) ==
    IF ~TruthyOwnerId(resourceOwner) THEN FALSE
    ELSE userId = resourceOwner.ownerId

canAccessResourceOrOwn_allOnly(user, resource, ownAction, allAction) ==
    IF isAdmin(user.role) THEN TRUE
    ELSE roleHasPermission(user.role, allAction)

\* canAccessResourceOrOwn(user, resource, ownAction, allAction), lines 77-95
canAccessResourceOrOwn(user, resource, ownAction, allAction) ==
    IF isAdmin(user.role) THEN TRUE
    ELSE IF ~resource.isNull /\ TruthyOwnerId(resource)
            /\ isResourceOwner(user.userId, resource)
         THEN roleHasPermission(user.role, ownAction)
         ELSE roleHasPermission(user.role, allAction)

\* getRolePermissions(role), lines 100-137: permissions[userRole] || [];
\* its table holds the same lists as ROLE_PERMISSIONS
getRolePermissions(role) ==
    CASE PropertyKind(role) = "list" ->
           [kind |-> "list", list |-> ROLE_PERMISSIONS[role]]
      [] PropertyKind(role) = "inherited" ->
           [kind |-> "inherited", list |-> {}]
      [] OTHER ->
           [kind |-> "list", list |-> {}]

(***************************************************************************)
(* Token codec: services/jwtService.ts (src/unnamed/part_001 133-194)      *)
(* A string that travels in a header is a record: a plain word, or a JWT   *)
(* with its claims and its signature.  The signature over claims c with    *)
(* key k is the pair (c, k): equal exactly when claims and key are equal.  *)
(***************************************************************************)
\* this.secret = process.env.JWT_SECRET || 'your-secret-key-change-in-production'
secret == "your-secret-key-change-in-production"

\* this.expiresIn = process.env.JWT_EXPIRES_IN || '7d', in clock ticks
\* (one tick of the model clock is half of the configured duration)
expiresIn == 2

NoClaims == [userId |-> "", email |-> "", role |-> "", iat |-> 0, exp |-> 0]
Hmac(claims, key) == [claims |-> claims, key |-> key]
NoSig == Hmac(NoClaims, "")

Word(text) == [form |-> "word", text |-> text, claims |-> NoClaims, sig |-> NoSig]
Jwt(claims, sig) == [form |-> "jwt", text |-> "", claims |-> claims, sig |-> sig]

\* jwt.sign(payload, key, {expiresIn}): iat is the clock, exp = iat + expiresIn
jwt_sign(payload, key, duration) ==
    LET claims == [userId |-> payload.userId, email |-> payload.email,
                   role |-> payload.role, iat |-> now, exp |-> now + duration]
    IN  Jwt(claims, Hmac(claims, key))

\* jwt.verify(token, key): throws on a malformed string, on a signature
\* that does not match, and when the clock has reached exp
Threw(name) == [threw |-> TRUE, error |-> name, isNull |-> FALSE, payload |-> NoClaims]
Returned(claims) == [threw |-> FALSE, error |-> "", isNull |-> FALSE, payload |-> claims]
ReturnedNull == [threw |-> FALSE, error |-> "", isNull |-> TRUE, payload |-> NoClaims]

jwt_verify_noExpiry(token, key) ==
    IF token.form # "jwt" THEN Threw("JsonWebTokenError")
    ELSE IF token.sig # Hmac(token.claims, key) THEN Threw("JsonWebTokenError")
    ELSE Returned(token.claims)

jwt_verify_noSignature(token, key) ==
    IF token.form # "jwt" THEN Threw("JsonWebTokenError")
    ELSE IF now >= token.claims.exp THEN Threw("TokenExpiredError")
    ELSE Returned(token.claims)

jwt_verify(token, key) ==
    IF token.form # "jwt" THEN Threw("JsonWebTokenError")
    ELSE IF token.sig # Hmac(token.claims, key) THEN Threw("JsonWebTokenError")
    ELSE IF now >= token.claims.exp THEN Threw("TokenExpiredError")
    ELSE Returned(token.claims)

generateToken_emailAsId(user) ==
    jwt_sign([userId |-> user.email, email |-> user.email, role |-> user.role],
             secret, expiresIn)

generateToken(user) ==
    jwt_sign([userId |-> user.id, email |-> user.email, role |-> user.role],
             secret, expiresIn)

\* decodeToken(token), lines 185-191: jwt.decode reads the payload without
\* looking at the signature or at exp; null for a string that is no JWT
decodeToken(token) ==
    IF token.form # "jwt" THEN ReturnedNull ELSE Returned(token.claims)

verifyToken_decodeOnly(token) == decodeToken(token)

verifyToken_noCatch(token) == jwt_verify(token, secret)

verifyToken(token) ==
    LET decoded == jwt_verify(token, secret)
    IN  IF decoded.threw THEN ReturnedNull ELSE decoded

\* what a client can do to a token it holds
AlterSignature(token) == [token EXCEPT !.sig.key = "flipped"]
AlterRole(token, role) == [token EXCEPT !.claims.role = role]

(***************************************************************************)
(* Request gate: middleware/authMiddleware.ts (lines 128-430)              *)
(* A header value is the sequence of its chunks: a chunk is one space (SP) *)
(* or a maximal run of other characters (a Word or a Jwt).                 *)
(***************************************************************************)
SP == Word(" ")
Bearer == Word("Bearer")
EmptyString == Word("")

\* req.headers.authorization: undefined, or a string
NoHeader == [present |-> FALSE, chunks |-> <<>>]
HeaderOf(chunks) == [present |-> TRUE, chunks |-> chunks]

\* authHeader.split(' '): every space ends a part and starts the next one
RECURSIVE SplitFrom(_, _, _)
SplitFrom(chunks, i, parts) ==
    IF i > Len(chunks) THEN parts
    ELSE IF chunks[i] = SP
         THEN SplitFrom(chunks, i + 1, Append(parts, EmptyString))
         ELSE SplitFrom(chunks, i + 1,
                        [parts EXCEPT ![Len(parts)] = chunks[i]])
Split(chunks) == SplitFrom(chunks, 1, <<EmptyString>>)

\* !authHeader: undefined and the empty string are falsy
FalsyHeader(header) == ~header.present \/ header.chunks = <<>>

NoUser == [attached |-> FALSE, userId |-> "", email |-> "", role |-> ""]
Attached(id, email, role) ==
    [attached |-> TRUE, userId |-> id, email |-> email, role |-> role]

\* what a middleware does with the request: res.status(..).json(..), or next()
Reject(status, message) == [kind |-> "reject", status |-> status, message |-> message]
CallNext == [kind |-> "next", status |-> 0, message |-> ""]

MsgNoToken == "No token provided. Authorization header is required."
MsgInvalidFormat == "Invalid token format. Use: Bearer <token>"
MsgInvalidToken == "Invalid or expired token"
MsgUserNotFound == "User not found"
MsgPendingApproval == "Your account is pending approval. Please wait for an admin to approve your account."
MsgAuthFailed == "Authentication failed"
MsgAuthRequired == "Authentication required"
MsgInsufficientRoles == "Insufficient permissions. Required roles: "
MsgResourceIdRequired == "Resource ID is required"
MsgNoAccess == "You do not have permission to access this resource"

\* authenticate, lines 150-184: the synchronous part, up to the store lookup.
\* kind "lookup" carries the payload verifyToken returned.
ToLookup(decoded) ==
    [kind |-> "lookup", status |-> 0, message |-> "", decoded |-> decoded]
Rejected(status, message) ==
    [kind |-> "reject", status |-> status, message |-> message, decoded |-> NoClaims]

authenticateHeader_schemeOnly(header) ==
    IF FalsyHeader(header)
    THEN Rejected(401, MsgNoToken)
    ELSE LET parts == Split(header.chunks) IN
         IF parts[1] # Bearer
         THEN Rejected(401, MsgInvalidFormat)
         ELSE LET decoded == verifyToken(parts[Len(parts)]) IN
              IF decoded.threw THEN Rejected(401, MsgAuthFailed)
              ELSE IF decoded.isNull THEN Rejected(401, MsgInvalidToken)
              ELSE ToLookup(decoded.payload)

authenticateHeader(header) ==
    IF FalsyHeader(header)
    THEN Rejected(401, MsgNoToken)
    ELSE LET parts == Split(header.chunks) IN
         IF Len(parts) # 2 \/ parts[1] # Bearer
         THEN Rejected(401, MsgInvalidFormat)
         ELSE LET decoded == verifyToken(parts[2]) IN
              \* an exception inside the try block reaches the catch, line 223
              IF decoded.threw THEN Rejected(401, MsgAuthFailed)
              ELSE IF decoded.isNull THEN Rejected(401, MsgInvalidToken)
              ELSE ToLookup(decoded.payload)

\* prisma.user.findUnique({ where: { id } }): the row, or null
NoRow == [found |-> FALSE, id |-> "", email |-> "", role |-> "", isApproved |-> FALSE]
findUnique(id) ==
    IF id \in DOMAIN db
    THEN [found |-> TRUE, id |-> id, email |-> db[id].email,
          role |-> db[id].role, isApproved |-> db[id].isApproved]
    ELSE NoRow

\* authenticate, lines 198-222: what follows the store lookup
Pass(user) == [kind |-> "next", status |-> 0, message |-> "", user |-> user]
Deny(status, message) ==
    [kind |-> "reject", status |-> status, message |-> message, user |-> NoUser]

authenticateUser_noApprovalGate(decoded, user) ==
    IF ~user.found THEN Deny(401, MsgUserNotFound)
    ELSE Pass(Attached(user.id, user.email, user.role))

authenticateUser_fromToken(decoded, user) ==
    IF ~user.found THEN Deny(401, MsgUserNotFound)
    ELSE IF user.role = "influencer" /\ ~user.isApproved
         THEN Deny(403, MsgPendingApproval)
         ELSE Pass(Attached(decoded.userId, decoded.email, decoded.role))

authenticateUser(decoded, user) ==
    IF ~user.found THEN Deny(401, MsgUserNotFound)
    ELSE IF user.role = "influencer" /\ ~user.isApproved
         THEN Deny(403, MsgPendingApproval)
         ELSE Pass(Attached(user.id, user.email, user.role))

optionalAuth_strict(header) ==
    IF FalsyHeader(header) THEN Pass(NoUser)
    ELSE LET parts == Split(header.chunks) IN
         IF Len(parts) = 2 /\ parts[1] = Bearer
         THEN LET decoded == verifyToken(parts[2]) IN
              IF decoded.threw \/ decoded.isNull
              THEN Deny(401, MsgInvalidToken)
              ELSE Pass(Attached(decoded.payload.userId, decoded.payload.email,
                                 decoded.payload.role))
         ELSE Pass(NoUser)

\* optionalAuth, lines 235-259: attaches the payload of a verified token
optionalAuth(header) ==
    IF FalsyHeader(header) THEN Pass(NoUser)
    ELSE LET parts == Split(header.chunks) IN
         IF Len(parts) = 2 /\ parts[1] = Bearer
         THEN LET decoded == verifyToken(parts[2]) IN
              IF decoded.threw \/ decoded.isNull
              THEN Pass(NoUser)
              ELSE Pass(Attached(decoded.payload.userId, decoded.payload.email,
                                 decoded.payload.role))
         ELSE Pass(NoUser)

\* roles.includes(role), roles a sequence
Includes(roles, role) == \E i \in 1..Len(roles) : roles[i] = role

authorize_attachedOnly(roles, user) ==
    IF ~user.attached THEN Reject(401, MsgAuthRequired) ELSE CallNext

\* authorize(...roles), lines 264-284
authorize(roles, user) ==
    IF ~user.attached THEN Reject(401, MsgAuthRequired)
    ELSE IF ~Includes(roles, user.role) THEN Reject(403, MsgInsufficientRoles)
    ELSE CallNext

\* A value read from req.params or from the parsed JSON body: undefined, a
\* string, a number, or an array of such values
Undefined == [type |-> "undefined", str |-> "", num |-> 0, items |-> <<>>]
Str(s) == [type |-> "string", str |-> s, num |-> 0, items |-> <<>>]
Num(n) == [type |-> "number", str |-> "", num |-> n, items |-> <<>>]
Arr(items) == [type |-> "array", str |-> "", num |-> 0, items |-> items]

\* JavaScript truthiness: undefined, "" and 0 are falsy, every array is truthy
Truthy(v) ==
    CASE v.type = "undefined" -> FALSE
      [] v.type = "string" -> v.str # ""
      [] v.type = "number" -> v.num # 0
      [] OTHER -> TRUE

\* paramValue[0]
First(v) == IF Len(v.items) > 0 THEN v.items[1] ELSE Undefined

requireOwnershipOrRole_bypassIgnored(allowedRoles, user, param, body) ==
    IF ~user.attached THEN Reject(401, MsgAuthRequired)
    ELSE IF isAdmin(user.role) THEN CallNext
    ELSE LET paramValue == IF Truthy(param) THEN param ELSE body
             resourceId == IF paramValue.type = "array"
                           THEN First(paramValue) ELSE paramValue
         IN IF ~Truthy(resourceId) \/ resourceId.type # "string"
            THEN Reject(400, MsgResourceIdRequired)
            ELSE IF resourceId.str = user.userId THEN CallNext
            ELSE Reject(403, MsgNoAccess)

\* requireOwnershipOrRole(resourceIdParam, ...allowedRoles), lines 322-367;
\* param is req.params[resourceIdParam], body is req.body[resourceIdParam]
requireOwnershipOrRole(allowedRoles, user, param, body) ==
    IF ~user.attached THEN Reject(401, MsgAuthRequired)
    ELSE IF isAdmin(user.role) THEN CallNext
    ELSE IF Len(allowedRoles) > 0 /\ Includes(allowedRoles, user.role) THEN CallNext
    ELSE LET paramValue == IF Truthy(param) THEN param ELSE body
             resourceId == IF paramValue.type = "array"
                           THEN First(paramValue) ELSE paramValue
         IN IF ~Truthy(resourceId) \/ resourceId.type # "string"
            THEN Reject(400, MsgResourceIdRequired)
            ELSE IF resourceId.str = user.userId THEN CallNext
            ELSE Reject(403, MsgNoAccess)

MsgRequiredPermission == "Insufficient permissions. Required permission: "

requirePermission_permissionFirst(permission, user) ==
    IF isAdmin(user.role) THEN CallNext
    ELSE IF ~roleHasPermission(user.role, permission)
         THEN Reject(403, MsgRequiredPermission)
    ELSE IF ~user.attached THEN Reject(401, MsgAuthRequired)
    ELSE CallNext

\* requirePermission(permission), lines 289-314
requirePermission(permission, user) ==
    IF ~user.attached THEN Reject(401, MsgAuthRequired)
    ELSE IF isAdmin(user.role) THEN CallNext
    ELSE IF ~roleHasPermission(user.role, permission)
         THEN Reject(403, MsgRequiredPermission)
    ELSE CallNext

\* What the store does with the findUnique of authenticate: it throws, or
\* it answers with the row of the id asked for, or with null
StoreThrows ==
    [threw |-> TRUE, found |-> FALSE, email |-> "", role |-> "", isApproved |-> FALSE]
StoreNull ==
    [threw |-> FALSE, found |-> FALSE, email |-> "", role |-> "", isApproved |-> FALSE]
StoreRow(email, role, isApproved) ==
    [threw |-> FALSE, found |-> TRUE, email |-> email, role |-> role,
     isApproved |-> isApproved]
RowOf(id, answer) ==
    IF answer.found
    THEN [found |-> TRUE, id |-> id, email |-> answer.email, role |-> answer.role,
          isApproved |-> answer.isApproved]
    ELSE NoRow

authenticate_pendingFallsThrough(header, answer) ==
    LET parsed == authenticateHeader(header) IN
    IF parsed.kind = "reject" THEN Deny(parsed.status, parsed.message)
    ELSE IF answer.threw THEN Deny(401, MsgAuthFailed)
    ELSE IF ~answer.found THEN Deny(401, MsgUserNotFound)
    ELSE [kind |-> "next",
          status |-> IF answer.role = "influencer" /\ ~answer.isApproved
                     THEN 403 ELSE 0,
          message |-> IF answer.role = "influencer" /\ ~answer.isApproved
                      THEN MsgPendingApproval ELSE "",
          user |-> Attached(parsed.decoded.userId, answer.email, answer.role)]

\* authenticate, lines 149-230, as one call: the header, and what the store
\* answers to the lookup when the call gets that far
authenticate(header, answer) ==
    LET parsed == authenticateHeader(header) IN
    IF parsed.kind = "reject" THEN Deny(parsed.status, parsed.message)
    ELSE IF answer.threw THEN Deny(401, MsgAuthFailed)
    ELSE authenticateUser(parsed.decoded, RowOf(parsed.decoded.userId, answer))

MsgRequiredOneOf == "Insufficient permissions. Required one of: "
MsgRequiredAllOf == "Insufficient permissions. Required all of: "

\* requireAnyRole(...roles), lines 372-397
requireAnyRole(roles, user) ==
    IF ~user.attached THEN Reject(401, MsgAuthRequired)
    ELSE IF isAdmin(user.role) THEN CallNext
    ELSE IF ~Includes(roles, user.role) THEN Reject(403, MsgRequiredOneOf)
    ELSE CallNext

requireAllRoles_everyRole(roles, user) ==
    IF ~user.attached THEN Reject(401, MsgAuthRequired)
    ELSE IF isAdmin(user.role) THEN CallNext
    ELSE IF \E i \in 1..Len(roles) : roles[i] # user.role
         THEN Reject(403, MsgRequiredAllOf)
         ELSE CallNext

\* requireAllRoles(...roles), lines 403-429
requireAllRoles(roles, user) ==
    IF ~user.attached THEN Reject(401, MsgAuthRequired)
    ELSE IF isAdmin(user.role) THEN CallNext
    ELSE IF ~Includes(roles, user.role) THEN Reject(403, MsgRequiredAllOf)
    ELSE CallNext

(***************************************************************************)
(* Bounds and input sets                                                   *)
(***************************************************************************)
MaxUsers == 2       \* rows ever created
MaxTime == 3        \* the clock runs 0..MaxTime
MaxTokens == 2      \* tokens handed out by login

Slots == {"r1"}

UserIdPool == <<"u1", "u2", "u3", "u4">>
EmailPool == <<"a@x.io", "b@x.io", "c@x.io", "d@x.io">>

\* inputs of the direct engine calls
EngineRoles == UserRole \cup {"guest"}
EngineIds == {"u1", "u2"}
EngineUsers ==
    { [userId |-> i, email |-> "a@x.io", role |-> r] :
        i \in EngineIds, r \in EngineRoles }
EngineResources ==
    {NullResource, ResourceNoOwner} \cup { ResourceOf(o) : o \in EngineIds \cup {""} }
\* strings outside the Permission enum (the parameter is a string at run time)
ExtraPermissions == { <<"reports", "export", "all">>, <<"reports", "export", "own">> }
EnginePermissions == Permission \cup ExtraPermissions

NoCall == [op |-> "none"]

\* a request: its inputs, its place in the middleware chain, what the gate
\* attached to it (req.user) and the response sent for it (status 0: none).
\* header, decoded and row are kept while authenticate still reads them;
\* lookups counts the calls of prisma.user.findUnique authenticate has made.
NewReq(pc, route, header, target, bodyRole) ==
    [pc |-> pc, route |-> route, header |-> header, target |-> target,
     bodyRole |-> bodyRole, decoded |-> NoClaims, row |-> NoRow, user |-> NoUser,
     status |-> 0, message |-> "", nextCalls |-> 0, lookups |-> 0]
IdleReq == NewReq("idle", "", NoHeader, "", "")

InitGate ==
    /\ db = [i \in {} |-> i]
    /\ nextId = 0
    /\ now = 0
    /\ issued = {}
    /\ req = [r \in Slots |-> IdleReq]
    /\ approvedIds = {}

gateVars == <<db, nextId, now, issued, req, approvedIds>>

(***************************************************************************)
(* Direct calls of the engine                                              *)
(***************************************************************************)
CallCanAccessResource ==
    \E user \in EngineUsers, resource \in EngineResources,
       action \in EnginePermissions :
        /\ call' = [op |-> "canAccessResource", user |-> user,
                    resource |-> resource, action |-> action,
                    result |-> canAccessResource(user, resource, action)]
        /\ UNCHANGED gateVars

InitEngine == call = NoCall /\ InitGate
NextEngine == CallCanAccessResource
SpecEngine == InitEngine /\ [][NextEngine]_vars

\* the scope suffix of a permission string
Scope(permission) == permission[Len(permission)]

IsAccessCall == call.op = "canAccessResource"

\* C1: canAccessResource is true for every admin identity, every permission
\* (also one outside admin's list) and every resource (also null and a
\* resource owned by someone else).
C1_AdminBypass ==
    (IsAccessCall /\ call.user.role = "admin") => call.result = TRUE

C1_Witness ==
    /\ IsAccessCall
    /\ call.user.role = "admin"
    /\ call.action \notin ROLE_PERMISSIONS["admin"]
    /\ ~call.resource.isNull
    /\ call.resource.hasOwnerId
    /\ call.resource.ownerId \notin {"", call.user.userId}
    /\ call.result = TRUE

\* C2: for a non-admin role holding an own-scoped permission, the verdict is
\* true exactly when the resource is non-null, has an ownerId, and the
\* ownerId equals the identity's userId.
C2_OwnershipLaw ==
    ( /\ IsAccessCall
      /\ call.user.role # "admin"
      /\ call.user.role \in UserRole
      /\ call.action \in ROLE_PERMISSIONS[call.user.role]
      /\ Scope(call.action) = "own" )
    => ( call.result = ( /\ ~call.resource.isNull
                         /\ call.resource.hasOwnerId
                         /\ call.resource.ownerId = call.user.userId ) )

C2_Witness ==
    /\ IsAccessCall
    /\ call.user.role = "user"
    /\ call.action = CONTENT_WRITE_OWN
    /\ ~call.resource.isNull
    /\ call.resource.hasOwnerId
    /\ call.resource.ownerId \notin {"", call.user.userId}
    /\ call.result = FALSE

\* C3: for a role holding an all-scoped permission, the verdict is true for
\* every resource: null, without ownerId, owned by the identity or by another.
C3_AllScopeLaw ==
    ( /\ IsAccessCall
      /\ call.user.role \in UserRole
      /\ call.action \in ROLE_PERMISSIONS[call.user.role]
      /\ Scope(call.action) = "all" )
    => call.result = TRUE

C3_Witness ==
    /\ IsAccessCall
    /\ call.user.role = "influencer"
    /\ call.action = CONTENT_READ_ALL
    /\ call.resource.isNull
    /\ call.result = TRUE

Hash(password) == <<"bcrypt", password>>
verifyPassword(userPassword, inputPassword) == userPassword = Hash(inputPassword)

\* userService.userExists(email)
userExists(email) == \E id \in DOMAIN db : db[id].email = email

\* userService.createUser(data): role: data.role || 'user'; the column
\* isApproved is not written and takes its default, false
createUser(data) ==
    [email |-> data.email,
     role |-> IF data.role = "" THEN "user" ELSE data.role,
     isApproved |-> FALSE,
     password |-> Hash(data.password)]

\* registerSchema: role: z.enum(['user', 'admin', 'influencer']).optional()
RegisterRoles == UserRole \cup {""}
Passwords == {"password1", "wrong-password"}

\* the addresses clients register and log in with: the registered ones and
\* one that is not registered yet
ClientEmails == { db[id].email : id \in DOMAIN db } \cup { EmailPool[nextId + 1] }

\* AuthController.register: 409 when the email is taken, else a new row
Register(email, role) ==
    /\ nextId < MaxUsers
    /\ role \in RegisterRoles
    /\ ~userExists(email)
    /\ db' = [id \in DOMAIN db \cup {UserIdPool[nextId + 1]} |->
                IF id \in DOMAIN db THEN db[id]
                ELSE createUser([email |-> email, role |-> role,
                                 password |-> "password1"])]
    /\ nextId' = nextId + 1
    /\ UNCHANGED <<call, now, issued, req, approvedIds>>

\* AuthController.login: the row found by email, the password verified,
\* then { user, token: generateToken(user) } in the response
Login(email, password) ==
    /\ Cardinality(issued) < MaxTokens
    /\ \E id \in DOMAIN db :
        /\ db[id].email = email
        /\ verifyPassword(db[id].password, password)
        /\ LET user == [id |-> id, email |-> db[id].email, role |-> db[id].role]
           IN  issued' = issued \cup {[user |-> user, token |-> generateToken(user)]}
    /\ UNCHANGED <<call, db, nextId, now, req, approvedIds>>

\* time passes
Tick ==
    /\ now < MaxTime
    /\ now' = now + 1
    /\ UNCHANGED <<call, db, nextId, issued, req, approvedIds>>

(***************************************************************************)
(* Requests to /api/user (src/src/routes/user.ts): router.use(authenticate)*)
(* then the route's own middleware, then its handler.  The route           *)
(* "optional" stands for an endpoint mounted behind optionalAuth.          *)
(***************************************************************************)
\* the routes of the user router
UserRoutes == {"profile", "list", "put", "delete", "approve", "pending"}
\* the routes mounted with authorize('admin')
AdminRoutes == {"list", "delete", "approve", "pending"}
BodyRoles == UserRole \cup {""}

CreatedIds == { UserIdPool[k] : k \in 1..nextId }

\* the headers a client sends in the system: none, or a token it was given
ClientHeaders == {NoHeader} \cup { HeaderOf(<<Bearer, SP, g.token>>) : g \in issued }

Free(r) == req[r].pc \in {"idle", "done", "passed"}

\* A request arrives, at the user router (authenticate runs before any route
\* is matched) or at an endpoint behind optionalAuth.  Its route, its :id
\* parameter and its body are drawn by the first step that reads them
\* (nothing before that step depends on them).
StartRequest(r) ==
    /\ Free(r)
    /\ \E gate \in {"authenticate", "optionalAuth"}, header \in ClientHeaders :
        req' = [req EXCEPT ![r] = NewReq(gate, "", header, "", "")]
    /\ UNCHANGED <<call, db, nextId, now, issued, approvedIds>>

\* res.status(status).json({ message }): the request is over, and only its
\* response is kept
Respond(r, status, message) ==
    req' = [req EXCEPT ![r] = [IdleReq EXCEPT !.pc = "done",
                                              !.status = status,
                                              !.message = message]]

\* next(): the router matches the route; its middleware, or its handler
AfterAuthenticate(route) ==
    IF route \in AdminRoutes \cup {"put"} THEN "check" ELSE "handler"

\* authenticate, up to `await prisma.user.findUnique`
Authenticate(r) ==
    /\ req[r].pc = "authenticate"
    /\ LET out == authenticateHeader(req[r].header) IN
        IF out.kind = "reject"
        THEN Respond(r, out.status, out.message)
        ELSE req' = [req EXCEPT ![r].pc = "lookup", ![r].header = NoHeader,
                                ![r].decoded = out.decoded]
    /\ UNCHANGED <<call, db, nextId, now, issued, approvedIds>>

\* authenticate: the store answers prisma.user.findUnique, lines 188-196
AuthenticateLookup(r) ==
    /\ req[r].pc = "lookup"
    /\ req' = [req EXCEPT ![r].pc = "found",
                          ![r].lookups = @ + 1,
                          ![r].row = findUnique(req[r].decoded.userId)]
    /\ UNCHANGED <<call, db, nextId, now, issued, approvedIds>>

AuthenticateLookupThrows_retry(r) ==
    /\ req[r].pc = "lookup"
    /\ IF req[r].lookups < 1
       THEN req' = [req EXCEPT ![r].lookups = @ + 1]
       ELSE Respond(r, 401, MsgAuthFailed)
    /\ UNCHANGED <<call, db, nextId, now, issued, approvedIds>>

\* authenticate: the store lookup rejects (store unreachable); catch, line 223
AuthenticateLookupThrows(r) ==
    /\ req[r].pc = "lookup"
    /\ Respond(r, 401, MsgAuthFailed)
    /\ UNCHANGED <<call, db, nextId, now, issued, approvedIds>>

\* authenticate, lines 198-222: from the answer of the store on
AuthenticateAttach(r) ==
    /\ req[r].pc = "found"
    /\ LET out == authenticateUser(req[r].decoded, req[r].row) IN
        IF out.kind = "reject"
        THEN Respond(r, out.status, out.message)
        ELSE \E route \in UserRoutes :
             req' = [req EXCEPT ![r].pc = AfterAuthenticate(route),
                                ![r].route = route,
                                ![r].decoded = NoClaims,
                                ![r].row = NoRow,
                                ![r].user = out.user,
                                ![r].nextCalls = @ + 1]
    /\ UNCHANGED <<call, db, nextId, now, issued, approvedIds>>

\* optionalAuth: no store lookup, always next()
OptionalAuth(r) ==
    /\ req[r].pc = "optionalAuth"
    /\ LET out == optionalAuth(req[r].header) IN
        IF out.kind = "reject"
        THEN Respond(r, out.status, out.message)
        ELSE req' = [req EXCEPT ![r].pc = "passed", ![r].route = "optional",
                                ![r].header = NoHeader,
                                ![r].user = out.user,
                                ![r].nextCalls = @ + 1]
    /\ UNCHANGED <<call, db, nextId, now, issued, approvedIds>>

Apply(r, out, target) ==
    IF out.kind = "reject"
    THEN Respond(r, out.status, out.message)
    ELSE req' = [req EXCEPT ![r].pc = "handler", ![r].target = target,
                            ![r].nextCalls = @ + 1]

\* router.get('/', authorize('admin'), ..), router.delete('/:id', ..),
\* router.post('/admin/approve-influencer/:id', ..) and
\* router.get('/admin/pending-influencers', ..)
AuthorizeAdmin(r) ==
    /\ req[r].pc = "check"
    /\ req[r].route \in AdminRoutes
    /\ Apply(r, authorize(<<"admin">>, req[r].user), "")
    /\ UNCHANGED <<call, db, nextId, now, issued, approvedIds>>

\* router.put('/:id', requireOwnershipOrRole('id', 'admin'), ..)
RequireOwnershipOrAdmin(r) ==
    /\ req[r].pc = "check"
    /\ req[r].route = "put"
    /\ \E target \in CreatedIds :
        Apply(r, requireOwnershipOrRole(<<"admin">>, req[r].user, Str(target), Undefined),
              target)
    /\ UNCHANGED <<call, db, nextId, now, issued, approvedIds>>

\* GET /profile, lines 53-90
ProfileHandler(r) ==
    /\ req[r].pc = "handler"
    /\ req[r].route = "profile"
    /\ IF findUnique(req[r].user.userId).found
       THEN Respond(r, 200, "profile")
       ELSE Respond(r, 404, MsgUserNotFound)
    /\ UNCHANGED <<call, db, nextId, now, issued, approvedIds>>

\* GET /, lines 156-183: prisma.user.findMany
ListHandler(r) ==
    /\ req[r].pc = "handler"
    /\ req[r].route = "list"
    /\ Respond(r, 200, "users")
    /\ UNCHANGED <<call, db, nextId, now, issued, approvedIds>>

\* GET /admin/pending-influencers, lines 604-638: prisma.user.findMany
PendingHandler(r) ==
    /\ req[r].pc = "handler"
    /\ req[r].route = "pending"
    /\ Respond(r, 200, "influencers")
    /\ UNCHANGED <<call, db, nextId, now, issued, approvedIds>>

\* PUT /:id, lines 311-337: findUnique, 404 when the row is missing
PutFind(r) ==
    /\ req[r].pc = "handler"
    /\ req[r].route = "put"
    /\ IF findUnique(req[r].target).found
       THEN \E bodyRole \in BodyRoles :
               req' = [req EXCEPT ![r].pc = "write", ![r].bodyRole = bodyRole]
       ELSE Respond(r, 404, MsgUserNotFound)
    /\ UNCHANGED <<call, db, nextId, now, issued, approvedIds>>

putRole_anyCaller(bodyRole, user, oldRole) ==
    IF bodyRole # "" THEN bodyRole ELSE oldRole

\* if (req.body.role && req.user!.role === 'admin') updateData.role = req.body.role
putRole(bodyRole, user, oldRole) ==
    IF bodyRole # "" /\ user.role = "admin" THEN bodyRole ELSE oldRole

\* PUT /:id, lines 339-367: prisma.user.update (throws when the row is gone)
PutUpdate(r) ==
    /\ req[r].pc = "write"
    /\ req[r].route = "put"
    /\ IF req[r].target \in DOMAIN db
       THEN /\ db' = [db EXCEPT ![req[r].target].role =
                         putRole(req[r].bodyRole, req[r].user, @)]
            /\ Respond(r, 200, "User updated successfully")
       ELSE /\ db' = db
            /\ Respond(r, 500, "An error occurred while updating user")
    /\ UNCHANGED <<call, nextId, now, issued, approvedIds>>

\* DELETE /:id, lines 406-419
DeleteFind(r) ==
    /\ req[r].pc = "handler"
    /\ req[r].route = "delete"
    /\ \E target \in CreatedIds :
        IF findUnique(target).found
        THEN req' = [req EXCEPT ![r].pc = "write", ![r].target = target]
        ELSE Respond(r, 404, MsgUserNotFound)
    /\ UNCHANGED <<call, db, nextId, now, issued, approvedIds>>

\* DELETE /:id, lines 421-436: prisma.user.delete (throws when the row is gone)
DeleteDelete(r) ==
    /\ req[r].pc = "write"
    /\ req[r].route = "delete"
    /\ IF req[r].target \in DOMAIN db
       THEN /\ db' = [id \in DOMAIN db \ {req[r].target} |-> db[id]]
            /\ Respond(r, 200, "User deleted successfully")
       ELSE /\ db' = db
            /\ Respond(r, 500, "An error occurred while deleting user")
    /\ UNCHANGED <<call, nextId, now, issued, approvedIds>>

\* POST /admin/approve-influencer/:id without the role test of line 531
ApproveFind_anyRole(r) ==
    /\ req[r].pc = "handler"
    /\ req[r].route = "approve"
    /\ \E target \in CreatedIds :
        LET user == findUnique(target) IN
        IF ~user.found THEN Respond(r, 404, MsgUserNotFound)
        ELSE IF user.isApproved
             THEN Respond(r, 400, "Influencer is already approved")
        ELSE req' = [req EXCEPT ![r].pc = "write", ![r].target = target]
    /\ UNCHANGED <<call, db, nextId, now, issued, approvedIds>>

\* POST /admin/approve-influencer/:id, lines 516-543
ApproveFind(r) ==
    /\ req[r].pc = "handler"
    /\ req[r].route = "approve"
    /\ \E target \in CreatedIds :
        LET user == findUnique(target) IN
        IF ~user.found THEN Respond(r, 404, MsgUserNotFound)
        ELSE IF user.role # "influencer"
             THEN Respond(r, 400, "User is not an influencer")
        ELSE IF user.isApproved
             THEN Respond(r, 400, "Influencer is already approved")
        ELSE req' = [req EXCEPT ![r].pc = "write", ![r].target = target]
    /\ UNCHANGED <<call, db, nextId, now, issued, approvedIds>>

\* POST /admin/approve-influencer/:id, lines 545-573: data: { isApproved: true }
ApproveUpdate(r) ==
    /\ req[r].pc = "write"
    /\ req[r].route = "approve"
    /\ IF req[r].target \in DOMAIN db
       THEN /\ db' = [db EXCEPT ![req[r].target].isApproved = TRUE]
            /\ approvedIds' = approvedIds \cup {req[r].target}
            /\ Respond(r, 200, "Influencer approved successfully")
       ELSE /\ db' = db
            /\ approvedIds' = approvedIds
            /\ Respond(r, 500, "An error occurred while approving influencer")
    /\ UNCHANGED <<call, nextId, now, issued>>

Init == call = NoCall /\ InitGate

Next ==
    \/ \E email \in ClientEmails, role \in RegisterRoles : Register(email, role)
    \/ \E email \in ClientEmails, password \in Passwords : Login(email, password)
    \/ \E r \in Slots :
        \/ StartRequest(r)
        \/ Authenticate(r)
        \/ AuthenticateLookup(r)
        \/ AuthenticateLookupThrows(r)
        \/ AuthenticateAttach(r)
        \/ OptionalAuth(r)
        \/ AuthorizeAdmin(r)
        \/ RequireOwnershipOrAdmin(r)
        \/ ProfileHandler(r)
        \/ ListHandler(r)
        \/ PendingHandler(r)
        \/ PutFind(r)
        \/ PutUpdate(r)
        \/ DeleteFind(r)
        \/ DeleteDelete(r)
        \/ ApproveFind(r)
        \/ ApproveUpdate(r)

Spec == Init /\ [][Next]_vars

(***************************************************************************)
(* The token codec and the header parsing of authenticate, called with     *)
(* drawn inputs while the clock runs (the store stays empty)               *)
(***************************************************************************)
CodecUsers ==
    { [id |-> "u1", email |-> "a@x.io", role |-> "user"],
      [id |-> "u2", email |-> "b@x.io", role |-> "influencer"],
      [id |-> "u3", email |-> "c@x.io", role |-> "admin"] }

\* the strings a client can put where a token belongs: a token it was given,
\* one with a byte of the signature changed, one with the role claim
\* rewritten, and a string that is no JWT
ClientTokens ==
    { g.token : g \in issued }
    \cup { AlterSignature(g.token) : g \in issued }
    \cup { AlterRole(g.token, "admin") : g \in issued }
    \cup { Word("xyz") }

CodecHeaders ==
    { NoHeader, HeaderOf(<<>>), HeaderOf(<<Bearer>>), HeaderOf(<<Bearer, SP>>),
      HeaderOf(<<Word("Token"), SP, Word("xyz")>>) }
    \cup { HeaderOf(<<Bearer, SP, t>>) : t \in ClientTokens }
    \cup { HeaderOf(<<Word("bearer"), SP, g.token>>) : g \in issued }
    \cup { HeaderOf(<<Bearer, SP, SP, g.token>>) : g \in issued }
    \cup { HeaderOf(<<Bearer, SP, g.token, SP, Word("xyz")>>) : g \in issued }

CallGenerateToken ==
    /\ Cardinality(issued) < MaxTokens
    /\ \E user \in CodecUsers :
        LET token == generateToken(user) IN
        /\ issued' = issued \cup {[user |-> user, token |-> token]}
        /\ call' = [op |-> "generateToken", user |-> user, at |-> now,
                    result |-> token]
    /\ UNCHANGED <<db, nextId, now, req, approvedIds>>

CallVerifyToken ==
    /\ \E token \in ClientTokens :
        call' = [op |-> "verifyToken", token |-> token, at |-> now,
                 result |-> verifyToken(token)]
    /\ UNCHANGED gateVars

StartCodecRequest(r) ==
    /\ Free(r)
    /\ \E header \in CodecHeaders :
        req' = [req EXCEPT ![r] = NewReq("authenticate", "", header, "", "")]
    /\ UNCHANGED <<call, db, nextId, now, issued, approvedIds>>

InitCodec == call = NoCall /\ InitGate

NextCodec ==
    \/ CallGenerateToken
    \/ CallVerifyToken
    \/ Tick
    \/ \E r \in Slots :
        \/ StartCodecRequest(r)
        \/ Authenticate(r)
        \/ AuthenticateLookup(r)
        \/ AuthenticateAttach(r)

SpecCodec == InitCodec /\ [][NextCodec]_vars

(***************************************************************************)
(* Properties of the gate and of the codec                                 *)
(***************************************************************************)
\* the store's answer shows an influencer whose approval is pending
PendingRow(row) == row.found /\ row.role = "influencer" /\ ~row.isApproved
PendingInStore(id) ==
    id \in DOMAIN db /\ db[id].role = "influencer" /\ ~db[id].isApproved

\* steps of authenticate for the request r
HeaderStep(r) == req[r].pc = "authenticate" /\ req'[r].pc # "authenticate"
LookupStep(r) == req[r].pc = "lookup" /\ req'[r].pc = "found"
AttachStep(r) == req[r].pc = "found" /\ req'[r].pc # "found"
PassesAuthenticate(r) ==
    /\ req'[r].pc \in {"check", "handler"}
    /\ req'[r].user.attached
    /\ req'[r].nextCalls = 1
RejectedWith(r, status, message) ==
    /\ req'[r].pc = "done"
    /\ req'[r].status = status
    /\ req'[r].message = message
    /\ req'[r].nextCalls = 0

\* C5 as stated: an unapproved influencer is rejected 403 'pending approval'
\* without reaching the handler, and once approve-influencer has approved the
\* user every later request with its token passes authenticate.
C5_EveryLaterRequestPasses ==
    [][\A r \in Slots :
        /\ (AttachStep(r) /\ PendingRow(req[r].row))
              => RejectedWith(r, 403, MsgPendingApproval)
        /\ (AttachStep(r) /\ req[r].decoded.userId \in approvedIds)
              => PassesAuthenticate(r)]_vars

\* C5 (amended): an unapproved influencer is rejected 403 'pending approval'
\* without reaching the handler; once approve-influencer has approved the
\* user, a lookup that finds the user's row finds it approved, and a request
\* whose row was found and is not pending passes authenticate with the
\* token it already had.
C5_ApprovalGate ==
    [][\A r \in Slots :
        /\ (AttachStep(r) /\ PendingRow(req[r].row))
              => RejectedWith(r, 403, MsgPendingApproval)
        /\ (LookupStep(r) /\ req[r].decoded.userId \in approvedIds
                          /\ req'[r].row.found)
              => req'[r].row.isApproved
        /\ (AttachStep(r) /\ req[r].row.found /\ ~PendingRow(req[r].row))
              => PassesAuthenticate(r)]_vars

C5_Witness ==
    \E r \in Slots :
        /\ req[r].route \in UserRoutes
        /\ req[r].user.attached
        /\ req[r].user.role = "influencer"
        /\ req[r].user.userId \in approvedIds

\* C6: no identity-resolution path (authenticate, optionalAuth) attaches an
\* identity for a user stored as an unapproved influencer.
C6_NoIdentityWhilePending ==
    [][\A r \in Slots :
        (~req[r].user.attached /\ req'[r].user.attached)
            => ~PendingInStore(req'[r].user.userId)]_vars

\* C7: the identity authenticate attaches carries the role the store held
\* at lookup time, not the role in the token, and the role check that
\* follows in the request decides on that role.
C7_RoleFromStore ==
    [][\A r \in Slots :
        /\ (LookupStep(r) /\ req[r].decoded.userId \in DOMAIN db)
              => /\ req'[r].row.found
                 /\ req'[r].row.role = db[req[r].decoded.userId].role
        /\ (AttachStep(r) /\ req'[r].user.attached)
              => /\ req'[r].user.userId = req[r].row.id
                 /\ req'[r].user.role = req[r].row.role
        /\ (req[r].pc = "check" /\ req'[r].pc # "check"
                /\ req[r].route \in {"delete", "approve"})
              => ((req'[r].pc = "handler") = (req[r].user.role = "admin"))]_vars

\* a request passed authenticate with a role that no token of its user holds
C7_Witness ==
    \E r \in Slots :
        /\ req[r].route \in UserRoutes
        /\ req[r].user.attached
        /\ \E g \in issued : g.user.id = req[r].user.userId
        /\ \A g \in issued :
              g.user.id = req[r].user.userId => g.user.role # req[r].user.role

\* the exact form 'Bearer <token>'
WellFormedHeader(header) ==
    /\ header.present
    /\ Len(header.chunks) = 3
    /\ header.chunks[1] = Bearer
    /\ header.chunks[2] = SP
    /\ header.chunks[3] # SP

\* C8 as stated: every header value that is not 'Bearer <token>' gets the
\* 401 'invalid format' rejection; 'invalid or expired token' is sent only
\* for a well-formed header.
C8_AlwaysInvalidFormat ==
    [][\A r \in Slots :
        (HeaderStep(r) /\ req[r].header.present) =>
            /\ ~WellFormedHeader(req[r].header)
                  => RejectedWith(r, 401, MsgInvalidFormat)
            /\ req'[r].message = MsgInvalidToken
                  => WellFormedHeader(req[r].header)]_vars

\* C8 (amended): a header value that is not 'Bearer <token>' is rejected
\* with 401: the empty string as 'No token provided', 'Bearer ' followed by
\* nothing as 'Invalid or expired token', every other one as 'invalid
\* format'; 'invalid or expired token' is sent only for 'Bearer ' followed
\* by nothing or by a token that fails verification.
C8_MalformedHeader ==
    [][\A r \in Slots :
        (HeaderStep(r) /\ req[r].header.present) =>
            /\ ~WellFormedHeader(req[r].header)
                  => RejectedWith(r, 401,
                        CASE req[r].header.chunks = <<>> -> MsgNoToken
                          [] req[r].header.chunks = <<Bearer, SP>> -> MsgInvalidToken
                          [] OTHER -> MsgInvalidFormat)
            /\ req'[r].message = MsgInvalidToken
                  => \/ req[r].header.chunks = <<Bearer, SP>>
                     \/ /\ WellFormedHeader(req[r].header)
                        /\ verifyToken(req[r].header.chunks[3]).isNull]_vars

C8_Witness ==
    \E r \in Slots :
        /\ req[r].pc = "done"
        /\ req[r].status = 401
        /\ req[r].message = MsgInvalidFormat

\* the three ways a token fails: no JWT at all, a signature byte changed,
\* the clock later than issue time plus the configured duration
MalformedToken(token) == token.form # "jwt"
SignatureAltered(token) == \E g \in issued : token = AlterSignature(g.token)
Outlived(token, at) ==
    \E g \in issued : token = g.token /\ at > g.token.claims.iat + expiresIn
FailingToken(token, at) ==
    MalformedToken(token) \/ SignatureAltered(token) \/ Outlived(token, at)

\* C9: verifyToken never throws; it returns null for a malformed string, an
\* altered signature and an outlived token, and authenticate answers each
\* of them 401 'Invalid or expired token'.
C9_VerifyFailuresAreNull ==
    [][/\ call'.op = "verifyToken"
            => /\ ~call'.result.threw
               /\ FailingToken(call'.token, call'.at) => call'.result.isNull
       /\ \A r \in Slots :
            (HeaderStep(r) /\ WellFormedHeader(req[r].header)
                /\ FailingToken(req[r].header.chunks[3], now))
              => RejectedWith(r, 401, MsgInvalidToken)]_vars

C9_Witness ==
    /\ call.op = "verifyToken"
    /\ Outlived(call.token, call.at)
    /\ call.result.isNull
    /\ \E r \in Slots : req[r].pc = "done" /\ req[r].message = MsgInvalidToken

\* C10: verifyToken of a token generateToken made for an identity, before
\* its expiry, returns the identity's userId, email and role.
C10_RoundTrip ==
    \A g \in issued :
        ( /\ call.op = "verifyToken"
          /\ call.token = g.token
          /\ call.at < g.token.claims.iat + expiresIn )
        => /\ ~call.result.threw
           /\ ~call.result.isNull
           /\ call.result.payload.userId = g.user.id
           /\ call.result.payload.email = g.user.email
           /\ call.result.payload.role = g.user.role

C10_Witness ==
    \E g \in issued :
        /\ call.op = "verifyToken"
        /\ call.token = g.token
        /\ call.at > g.token.claims.iat
        /\ call.at < g.token.claims.iat + expiresIn
        /\ call.result.payload.role = g.user.role
        /\ g.user.role = "influencer"

(***************************************************************************)
(* Requests behind optionalAuth, with every kind of header, while the      *)
(* clock runs                                                              *)
(***************************************************************************)
StartOptionalRequest(r) ==
    /\ Free(r)
    /\ \E header \in CodecHeaders :
        req' = [req EXCEPT ![r] = NewReq("optionalAuth", "", header, "", "")]
    /\ UNCHANGED <<call, db, nextId, now, issued, approvedIds>>

NextOptional ==
    \/ CallGenerateToken
    \/ Tick
    \/ \E r \in Slots :
        \/ StartOptionalRequest(r)
        \/ OptionalAuth(r)

SpecOptional == InitCodec /\ [][NextOptional]_vars

OptionalStep(r) == req[r].pc = "optionalAuth" /\ req'[r].pc # "optionalAuth"

\* the token of a header of the form 'Bearer <token>' passes verification now
VerifiedHeader(header) ==
    /\ WellFormedHeader(header)
    /\ ~verifyToken(header.chunks[3]).threw
    /\ ~verifyToken(header.chunks[3]).isNull

\* C11: optionalAuth never rejects: for every header value it calls next
\* once and sends no response; it attaches an identity, the one in the
\* token, exactly when the header is 'Bearer <token>' and the token
\* verifies, and leaves req.user unset otherwise.
C11_OptionalNeverRejects ==
    [][\A r \in Slots :
        OptionalStep(r) =>
            /\ req'[r].pc = "passed"
            /\ req'[r].status = 0
            /\ req'[r].nextCalls = 1
            /\ req'[r].user.attached = VerifiedHeader(req[r].header)
            /\ VerifiedHeader(req[r].header) =>
                 \E g \in issued :
                    /\ g.token = req[r].header.chunks[3]
                    /\ req'[r].user = Attached(g.user.id, g.user.email, g.user.role)]_vars

\* a request went through optionalAuth and carries the identity of its token
C11_Witness ==
    \E r \in Slots :
        /\ req[r].pc = "passed"
        /\ req[r].route = "optional"
        /\ req[r].status = 0
        /\ req[r].nextCalls = 1
        /\ req[r].user.attached
        /\ \E g \in issued :
              /\ g.user.id = req[r].user.userId
              /\ now > g.token.claims.iat
              /\ now < g.token.claims.iat + expiresIn

(***************************************************************************)
(* Direct calls of the role and ownership middleware, of                   *)
(* canAccessResourceOrOwn and of the registry, with drawn inputs.  The     *)
(* functions keep no state, so every call is made from the initial state.  *)
(***************************************************************************)
\* req.user: unset, or an identity
PolicyUsers ==
    {NoUser} \cup { Attached(i, "a@x.io", r) : i \in EngineIds, r \in EngineRoles }

\* the ...roles a middleware is built with
RoleLists ==
    { <<>>, <<"admin">>, <<"user">>, <<"influencer">>,
      <<"user", "influencer">>, <<"guest">> }

\* what req.params[name] and req.body[name] can hold
ParamValues == { Undefined, Str("") } \cup { Str(i) : i \in EngineIds }
BodyValues ==
    { Undefined, Str(""), Num(0), Num(7), Arr(<<>>), Arr(<<Num(7)>>),
      Arr(<<Str("u1"), Str("u2")>>) }
    \cup { Str(i) : i \in EngineIds }
    \cup { Arr(<<Str(i)>>) : i \in EngineIds }

\* role strings handed to the registry
RegistryRoles == UserRole \cup {"guest", "", "Admin"} \cup ObjectPrototypeKeys

\* headers for the direct calls: tokens made for the identities just now
PolicyHeaders ==
    { NoHeader, HeaderOf(<<>>), HeaderOf(<<Bearer>>),
      HeaderOf(<<Bearer, SP, Word("xyz")>>) }
    \cup { HeaderOf(<<Bearer, SP, generateToken(u)>>) : u \in CodecUsers }
    \cup { HeaderOf(<<Bearer, SP, AlterSignature(generateToken(u))>>) : u \in CodecUsers }

StoreAnswers ==
    { StoreThrows, StoreNull }
    \cup { StoreRow("a@x.io", role, isApproved) :
              role \in UserRole, isApproved \in BOOLEAN }

\* a call of authenticate: the store is asked only when the header passed
CallAuthenticate(headers) ==
    \E header \in headers :
        \E answer \in IF authenticateHeader(header).kind = "reject"
                      THEN {StoreNull} ELSE StoreAnswers :
            /\ call' = [op |-> "authenticate", header |-> header,
                        answer |-> answer, at |-> now,
                        result |-> authenticate(header, answer)]
            /\ UNCHANGED gateVars

CallOptionalAuth(headers) ==
    \E header \in headers :
        /\ call' = [op |-> "optionalAuth", header |-> header, at |-> now,
                    result |-> optionalAuth(header)]
        /\ UNCHANGED gateVars

\* param is the :id of the request, the owner of the resource it targets
CallRequirePermission ==
    /\ call = NoCall
    /\ \E permission \in Permission, user \in PolicyUsers, param \in ParamValues :
        /\ call' = [op |-> "requirePermission", permission |-> permission,
                    user |-> user, param |-> param,
                    result |-> requirePermission(permission, user)]
        /\ UNCHANGED gateVars

CallAuthorize ==
    /\ call = NoCall
    /\ \E roles \in RoleLists, user \in PolicyUsers :
        /\ call' = [op |-> "authorize", roles |-> roles, user |-> user,
                    result |-> authorize(roles, user)]
        /\ UNCHANGED gateVars

CallRequireAnyRole ==
    /\ call = NoCall
    /\ \E roles \in RoleLists, user \in PolicyUsers :
        /\ call' = [op |-> "requireAnyRole", roles |-> roles, user |-> user,
                    result |-> requireAnyRole(roles, user)]
        /\ UNCHANGED gateVars

CallRequireAllRoles ==
    /\ call = NoCall
    /\ \E roles \in RoleLists, user \in PolicyUsers :
        /\ call' = [op |-> "requireAllRoles", roles |-> roles, user |-> user,
                    result |-> requireAllRoles(roles, user)]
        /\ UNCHANGED gateVars

CallRequireOwnershipOrRole ==
    /\ call = NoCall
    /\ \E roles \in RoleLists, user \in PolicyUsers,
       param \in ParamValues, body \in BodyValues :
        /\ call' = [op |-> "requireOwnershipOrRole", roles |-> roles,
                    user |-> user, param |-> param, body |-> body,
                    result |-> requireOwnershipOrRole(roles, user, param, body)]
        /\ UNCHANGED gateVars

CallCanAccessResourceOrOwn ==
    /\ call = NoCall
    /\ \E user \in EngineUsers, resource \in EngineResources,
       ownAction \in Permission, allAction \in Permission :
        /\ call' = [op |-> "canAccessResourceOrOwn", user |-> user,
                    resource |-> resource, ownAction |-> ownAction,
                    allAction |-> allAction,
                    result |-> canAccessResourceOrOwn(user, resource,
                                                      ownAction, allAction)]
        /\ UNCHANGED gateVars

CallRoleHasPermission ==
    /\ call = NoCall
    /\ \E role \in RegistryRoles, permission \in EnginePermissions :
        /\ call' = [op |-> "roleHasPermission", role |-> role,
                    permission |-> permission,
                    result |-> roleHasPermissionOutcome(role, permission)]
        /\ UNCHANGED gateVars

CallGetRolePermissions ==
    /\ call = NoCall
    /\ \E role \in RegistryRoles :
        /\ call' = [op |-> "getRolePermissions", role |-> role,
                    result |-> getRolePermissions(role)]
        /\ UNCHANGED gateVars

InitPolicy == call = NoCall /\ InitGate

NextPolicy ==
    \/ (call = NoCall /\ CallAuthenticate(PolicyHeaders))
    \/ CallRequirePermission
    \/ CallAuthorize
    \/ CallRequireAnyRole
    \/ CallRequireAllRoles
    \/ CallRequireOwnershipOrRole
    \/ CallCanAccessResourceOrOwn
    \/ CallRoleHasPermission
    \/ CallGetRolePermissions

SpecPolicy == InitPolicy /\ [][NextPolicy]_vars

\* the status of the rejection, or 0 when next() was called
Verdict(out) == IF out.kind = "next" THEN 0 ELSE out.status

\* C12: authorize(role) lets an authenticated admin identity pass for every
\* target role, also one other than admin; a non-admin identity passes only
\* when its role equals the target role and is rejected with 403 otherwise.
C12_AdminPassesEveryTarget ==
    (call.op = "authorize" /\ call.user.attached /\ Len(call.roles) = 1)
    => Verdict(call.result) =
          IF call.user.role = "admin" \/ call.user.role = call.roles[1]
          THEN 0 ELSE 403

ResourceIdentifier(c) == IF Truthy(c.param) THEN c.param ELSE c.body
WellFormedIdentifier(c) ==
    ResourceIdentifier(c).type = "string" /\ ResourceIdentifier(c).str # ""
InBypassList(c) == \E i \in 1..Len(c.roles) : c.roles[i] = c.user.role

\* C14: requireOwnershipOrRole passes an authenticated identity whose role
\* is admin, or is in the bypass list, or whose userId equals the
\* well-formed resource identifier; a non-admin identity outside the bypass
\* list whose well-formed identifier differs from its userId gets 403 and
\* next is not called.
C14_OwnershipOrRole ==
    (call.op = "requireOwnershipOrRole" /\ call.user.attached) =>
        /\ ( \/ call.user.role = "admin"
             \/ InBypassList(call)
             \/ /\ WellFormedIdentifier(call)
                /\ ResourceIdentifier(call).str = call.user.userId )
           => call.result = CallNext
        /\ ( /\ call.user.role # "admin"
             /\ ~InBypassList(call)
             /\ WellFormedIdentifier(call)
             /\ ResourceIdentifier(call).str # call.user.userId )
           => call.result = Reject(403, MsgNoAccess)

C14_Witness ==
    /\ call.op = "requireOwnershipOrRole"
    /\ call.user.attached
    /\ call.user.role = "user"
    /\ call.roles = <<"influencer">>
    /\ WellFormedIdentifier(call)
    /\ ResourceIdentifier(call).str # call.user.userId
    /\ call.result = Reject(403, MsgNoAccess)

\* C15: an ownership check (an authenticated identity that is neither admin
\* nor in the bypass list) on a request whose resource identifier is absent
\* or is not a scalar string is answered 400: never 403, never passed on.
C15_MalformedIdentifierIs400 ==
    ( /\ call.op = "requireOwnershipOrRole"
      /\ call.user.attached
      /\ call.user.role # "admin"
      /\ ~InBypassList(call)
      /\ ~WellFormedIdentifier(call) )
    => call.result = Reject(400, MsgResourceIdRequired)

\* C16: canAccessResourceOrOwn is true for an admin; otherwise, for a
\* non-null resource whose ownerId equals the identity's userId, it is
\* roleHasPermission(role, ownPerm); otherwise (null resource, no ownerId,
\* another owner) it is roleHasPermission(role, allPerm).
C16_OwnOrAll ==
    call.op = "canAccessResourceOrOwn" =>
        call.result =
            IF call.user.role = "admin" THEN TRUE
            ELSE IF /\ ~call.resource.isNull
                    /\ call.resource.hasOwnerId
                    /\ call.resource.ownerId = call.user.userId
                 THEN call.user.role \in UserRole
                      /\ call.ownAction \in ROLE_PERMISSIONS[call.user.role]
                 ELSE call.user.role \in UserRole
                      /\ call.allAction \in ROLE_PERMISSIONS[call.user.role]

C16_Witness ==
    /\ call.op = "canAccessResourceOrOwn"
    /\ call.user.role = "user"
    /\ ~call.resource.isNull
    /\ call.resource.hasOwnerId
    /\ call.resource.ownerId = call.user.userId
    /\ call.ownAction = CONTENT_WRITE_OWN
    /\ call.allAction = CONTENT_WRITE_ALL
    /\ call.result = TRUE

\* C17: for every role string other than user, admin and influencer,
\* roleHasPermission returns false for every permission, getRolePermissions
\* returns the empty list, and neither call fails.
C17_UnknownRoleDenied ==
    /\ (call.op = "roleHasPermission" /\ call.role \notin UserRole)
          => call.result = ReturnedBoolean(FALSE)
    /\ (call.op = "getRolePermissions" /\ call.role \notin UserRole)
          => call.result = [kind |-> "list", list |-> {}]

(***************************************************************************)
(* Properties of the routes                                                *)
(***************************************************************************)
\* the request r is the update of a PUT /:id about to be written
PutWrite(r) == req[r].pc = "write" /\ req[r].route = "put"

\* C18: the role of a stored user changes only in the update of a PUT /:id
\* for that user made by a request whose attached identity has role admin
\* (so a role that differs from the one the user was created with has been
\* written by such a request); the update of a request from a non-admin
\* identity leaves every role as it was, also when its body has a role.
C18_RoleChangedByAdminOnly ==
    [][/\ \A id \in DOMAIN db :
            (id \in DOMAIN db' /\ db'[id].role # db[id].role)
            => \E r \in Slots :
                  /\ PutWrite(r)
                  /\ req[r].target = id
                  /\ req[r].user.attached
                  /\ req[r].user.role = "admin"
                  /\ req'[r].pc = "done"
       /\ \A r \in Slots :
            (PutWrite(r) /\ req'[r].pc = "done" /\ req[r].user.role # "admin")
            => /\ DOMAIN db' = DOMAIN db
               /\ \A id \in DOMAIN db : db'[id].role = db[id].role]_vars

\* a user logged in with one role and is stored with another after an
\* update has been answered
C18_Witness ==
    /\ \E g \in issued :
          /\ g.user.id \in DOMAIN db
          /\ db[g.user.id].role # g.user.role
    /\ \E r \in Slots :
          /\ req[r].pc = "done"
          /\ req[r].status = 200
          /\ req[r].message = "User updated successfully"

\* C19: the handlers of GET /, DELETE /:id, POST /admin/approve-influencer/:id
\* and GET /admin/pending-influencers run only for a request whose attached
\* identity has role admin; a request of an identity with role user or
\* influencer is answered 403 and its handler does not run, so that it
\* reads and writes nothing.
C19_AdminOnlyHandlers ==
    [][\A r \in Slots :
        /\ (req'[r].route \in AdminRoutes /\ req'[r].pc \in {"handler", "write"})
              => (req'[r].user.attached /\ req'[r].user.role = "admin")
        /\ ( /\ req[r].pc = "check"
             /\ req[r].route \in AdminRoutes
             /\ req[r].user.role \in {"user", "influencer"}
             /\ req'[r] # req[r] )
           => /\ req'[r].pc = "done"
              /\ req'[r].status = 403
              /\ req'[r].message = MsgInsufficientRoles
              /\ db' = db
              /\ approvedIds' = approvedIds]_vars

C19_Witness ==
    \E r \in Slots :
        /\ req[r].pc = "done"
        /\ req[r].status = 403
        /\ req[r].message = MsgInsufficientRoles

\* C20: when the store lookup of authenticate throws, or finds no record
\* for the subject of a verified token, the request is answered 401 and
\* next is not called; the lookup is made once, never a second time.
C20_LookupFailureIs401 ==
    [][\A r \in Slots :
        /\ req[r].pc = "lookup" =>
              /\ req[r].lookups = 0
              /\ req'[r] # req[r] => req'[r].pc \in {"found", "done"}
              /\ req'[r].pc = "found" => req'[r].lookups = 1
              /\ req'[r].pc = "done" => RejectedWith(r, 401, MsgAuthFailed)
        /\ req[r].pc = "found" => req[r].lookups = 1
        /\ (AttachStep(r) /\ ~req[r].row.found)
              => RejectedWith(r, 401, MsgUserNotFound)]_vars

\* a token was issued for a user that is stored no more, and a request was
\* answered 'User not found'
C20_Witness ==
    /\ \E g \in issued : g.user.id \notin DOMAIN db
    /\ \E r \in Slots :
          /\ req[r].pc = "done"
          /\ req[r].status = 401
          /\ req[r].message = MsgUserNotFound

(***************************************************************************)
(* Properties of the checks as single calls                                *)
(***************************************************************************)
AuthorizationChecks ==
    {"authorize", "requirePermission", "requireOwnershipOrRole",
     "requireAnyRole", "requireAllRoles"}

\* C21: every authorization check called on a request without an attached
\* identity answers 401 'Authentication required' and does not call next,
\* whatever the role list, permission or resource identifier: never 403,
\* never 400.
C21_IdentityBeforeAuthorization ==
    (call.op \in AuthorizationChecks /\ ~call.user.attached)
    => call.result = Reject(401, MsgAuthRequired)

C21_Witness ==
    /\ call.op = "requireOwnershipOrRole"
    /\ ~call.user.attached
    /\ call.roles = <<>>
    /\ ~Truthy(call.param)
    /\ ~Truthy(call.body)
    /\ call.result = Reject(401, MsgAuthRequired)

\* C22: every call of a gate check ends in exactly one outcome: next is
\* called and the check sends no response, or one rejection is sent and
\* next is not called.
C22_OneOutcome ==
    (call.op \in AuthorizationChecks \cup {"authenticate"}) =>
        \/ /\ call.result.kind = "next"
           /\ call.result.status = 0
           /\ call.result.message = ""
        \/ /\ call.result.kind = "reject"
           /\ call.result.status \in {400, 401, 403}
           /\ call.result.message # ""
           /\ call.op = "authenticate" => ~call.result.user.attached

C22_Witness ==
    /\ call.op = "authenticate"
    /\ call.answer.found
    /\ call.answer.role = "influencer"
    /\ ~call.answer.isApproved
    /\ call.result = Deny(403, MsgPendingApproval)

\* C24: requirePermission(P) with an own-scoped P lets a non-admin request
\* through only when the owner of the targeted resource, the :id of the
\* request, is the identity's userId.
C24_OwnScopeAtTheGate ==
    ( /\ call.op = "requirePermission"
      /\ call.user.attached
      /\ call.user.role # "admin"
      /\ Scope(call.permission) = "own"
      /\ call.result = CallNext )
    => call.param = Str(call.user.userId)

(***************************************************************************)
(* Identity resolution as single calls, with every kind of header, while   *)
(* tokens are issued and the clock runs                                    *)
(***************************************************************************)
NextIdentity ==
    \/ CallGenerateToken
    \/ Tick
    \/ CallAuthenticate(CodecHeaders)
    \/ CallOptionalAuth(CodecHeaders)

SpecIdentity == InitCodec /\ [][NextIdentity]_vars

\* the header of the call carries a token that was issued to user, unaltered,
\* and the call was made before the token's expiry
CarriesLiveTokenOf(c, g) ==
    /\ WellFormedHeader(c.header)
    /\ c.header.chunks[3] = g.token
    /\ g.token.sig = Hmac(g.token.claims, secret)
    /\ c.at < g.token.claims.exp

\* C23: whenever authenticate or optionalAuth attaches an identity, the
\* request carried a token with a valid signature that had not expired,
\* and the attached userId is the userId of that token's payload; nothing
\* is attached for a token that only decodes.
C23_AttachedMeansVerified ==
    ( /\ call.op \in {"authenticate", "optionalAuth"}
      /\ call.result.user.attached )
    => \E g \in issued :
          /\ CarriesLiveTokenOf(call, g)
          /\ call.result.kind = "next"
          /\ call.result.user.userId = g.token.claims.userId
          /\ g.token.claims.userId = g.user.id

\* authenticate attached an identity, with the role of the store, for a
\* token issued earlier and not yet expired
C23_Witness ==
    /\ call.op = "authenticate"
    /\ call.result.kind = "next"
    /\ call.result.user.attached
    /\ \E g \in issued :
          /\ CarriesLiveTokenOf(call, g)
          /\ call.at > g.token.claims.iat
          /\ call.result.user.userId = g.user.id
          /\ call.result.user.role # g.user.role

(***************************************************************************)
(* Two requests in flight at once.  An admin and an influencer have        *)
(* registered and the admin has logged in; the steps of the two requests   *)
(* interleave at every await.                                              *)
(***************************************************************************)
RaceSlots == {"r1", "r2"}

InitRace ==
    LET RaceAdmin == [id |-> "u1", email |-> "a@x.io", role |-> "admin"] IN
    /\ call = NoCall
    /\ now = 0
    /\ nextId = 2
    /\ db = [id \in {"u1", "u2"} |->
                IF id = "u1"
                THEN createUser([email |-> "a@x.io", role |-> "admin",
                                 password |-> "password1"])
                ELSE createUser([email |-> "b@x.io", role |-> "influencer",
                                 password |-> "password1"])]
    /\ issued = {[user |-> RaceAdmin, token |-> generateToken(RaceAdmin)]}
    /\ req = [r \in RaceSlots |-> IdleReq]
    /\ approvedIds = {}

NextRace ==
    \E r \in RaceSlots :
        \/ StartRequest(r)
        \/ Authenticate(r)
        \/ AuthenticateLookup(r)
        \/ AuthenticateLookupThrows(r)
        \/ AuthenticateAttach(r)
        \/ OptionalAuth(r)
        \/ AuthorizeAdmin(r)
        \/ RequireOwnershipOrAdmin(r)
        \/ ProfileHandler(r)
        \/ ListHandler(r)
        \/ PendingHandler(r)
        \/ PutFind(r)
        \/ PutUpdate(r)
        \/ DeleteFind(r)
        \/ DeleteDelete(r)
        \/ ApproveFind(r)
        \/ ApproveUpdate(r)

SpecRace == InitRace /\ [][NextRace]_vars

\* the request r takes a step of its handler: a read or a write of the store
HandlerStep(r) ==
    /\ req[r].pc \in {"handler", "write"}
    /\ req[r].route \in UserRoutes
    /\ req'[r] # req[r]

\* C25: under every interleaving, when a protected handler reads or writes
\* the store for identity X, X is still stored, with the role of the
\* attached identity, and is no unapproved influencer.
C25_IdentityCurrentAtHandler ==
    [][\A r \in RaceSlots :
        HandlerStep(r) =>
            /\ req[r].user.userId \in DOMAIN db
            /\ db[req[r].user.userId].role = req[r].user.role
            /\ ~PendingInStore(req[r].user.userId)]_vars

\* C26: for one influencer, under every interleaving of approve-influencer
\* requests, at most one is answered 200 'Influencer approved
\* successfully': no request gets that answer for an influencer that an
\* earlier request was already answered it for.
C26_ApprovedOnce ==
    [][\A r \in RaceSlots :
        ( /\ req[r].pc = "write"
          /\ req[r].route = "approve"
          /\ req'[r].pc = "done"
          /\ req'[r].status = 200 )
        => req[r].target \notin approvedIds]_vars

(***************************************************************************)
(* The approval flag and the admin role of the stored users                *)
(***************************************************************************)
\* the update of an approve-influencer request with an admin identity
ApproveWrite(r) ==
    /\ req[r].pc = "write"
    /\ req[r].route = "approve"
    /\ req[r].user.role = "admin"

C28_AdminsMadeByAdmins ==
    [][\A id \in DOMAIN db' :
        ( /\ db'[id].role = "admin"
          /\ (id \notin DOMAIN db \/ db[id].role # "admin") )
        => \E r \in Slots :
              /\ PutWrite(r)
              /\ req[r].target = id
              /\ req[r].user.role = "admin"
              /\ req[r].user.userId \in DOMAIN db
              /\ db[req[r].user.userId].role = "admin"]_vars

====
